---- MODULE Spec2Model ----
(***************************************************************************)
(* Model of the Discord relay services of SuperAgent-n8n.                  *)
(*                                                                         *)
(* Three relay variants share one message store and one pipeline shape:    *)
(*   "legacy"   src/legacy/discord_api_server.py (Flask handler)           *)
(*   "combined" src/discord_combined_service.py (SuperAgentBot)            *)
(*   "toolbot"  src/src/discord_bot_with_mcp.py (bot) calling              *)
(*              src/src/api_server.py (Flask handler) over HTTP            *)
(*   "botforge" src/src/discord_bot.py (bot) calling the same handler      *)
(*                                                                         *)
(* Spec        the pipelines, step by step, with concurrent handlers       *)
(* SpecWindow  the context assemblers applied to stores of many rows       *)
(* SpecTrigger the trigger filters applied to message events               *)
(***************************************************************************)
EXTENDS Integers, Sequences, FiniteSets, TLC

VARIABLES scope, variant, store, req, sent, loop, trig, disp, mcp, boot

vars == <<scope, variant, store, req, sent, loop, trig, disp, mcp, boot>>

----------------------------------------------------------------------------
(* Bounds of the model *)

\* number of inbound deliveries handled in one behaviour of Spec
MaxReq == 2
\* tool calls in one model response
MaxCalls == 2
\* rows already in the store when SpecWindow's handler starts
MaxStored == 26

(* Program constants *)

\* limit=15 passed to get_conversation_history
HistoryLimit == 15
\* the ceiling on the message list
ContextCeiling == 25
\* limit=30 default of MCPDiscordBot.get_conversation_history
McpHistoryLimit == 30

----------------------------------------------------------------------------
(* Sequence helpers *)

Min(a, b) == IF a < b THEN a ELSE b

\* the last k elements of s (all of s when it is shorter): s[-k:] for k > 0
LastK(s, k) == IF Len(s) <= k THEN s ELSE SubSeq(s, Len(s) - k + 1, Len(s))

\* reversed(s)
Reverse(s) == [i \in 1..Len(s) |-> s[Len(s) + 1 - i]]

RECURSIVE SelectRows(_, _, _)
\* the rows of s satisfying keep, in order; keep is a set of row indexes
SelectRows(s, keep, i) ==
    IF i > Len(s) THEN << >>
    ELSE (IF i \in keep THEN <<s[i]>> ELSE << >>) \o SelectRows(s, keep, i + 1)

----------------------------------------------------------------------------
(* Texts *)

\* what a user can type, after the mention tags are stripped
UserTexts == {"a", "b"}
\* what the provider answers
LlmTexts == {"r"}
\* the system prompt of the legacy and combined variants
SystemPrompt == "SYS"
\* the two canned texts of the legacy and combined variants
TimeoutText == "canned-timeout"
ErrorText == "canned-error"
\* AIProviderManager.get_response's canned text
ProviderErrorText == "canned-provider"
\* the combined service's notice when handling a message raised
NoticeText == "notice-technical-issue"
\* the bots' notice when the API server answers with a status other than 200
TroubleText == "notice-trouble"
\* the bots' notice when the handler raised
FailureText == "notice-failure"
\* discord_bot_with_mcp's replacement for an empty answer
EmptyText == "canned-empty"
\* format_tool_results_fallback when no tool succeeded
IssuesText == "canned-issues"
\* the personality of the bot, sent as the system message by the API server
Personality == "PERSONA"

Users == {"u1", "u2"}
Chans == {"c1"}
BotName == "Grok4Agent"

Variants == {"legacy", "combined", "toolbot", "botforge"}

\* the inbound Discord messages: an id names one message, so a delivery of
\* the same id carries the same author and content
Messages ==
    {[mid |-> 1, user |-> "u1", chan |-> "c1", content |-> "a"],
     [mid |-> 2, user |-> "u1", chan |-> "c1", content |-> "b"],
     [mid |-> 3, user |-> "u2", chan |-> "c1", content |-> "a"]}
\* ... and one whose text is the system prompt's
WindowMessages ==
    Messages \cup {[mid |-> 4, user |-> "u1", chan |-> "c1", content |-> "SYS"]}
NoMsg == [mid |-> 0, user |-> "none", chan |-> "none", content |-> ""]

----------------------------------------------------------------------------
(* The message store.  A row keeps the columns the relays read; "by" is the *)
(* handler instance that wrote the row and is read by no operation.         *)

Row(mid, user, chan, name, content, mtype, bot, by) ==
    [mid |-> mid, user |-> user, chan |-> chan, name |-> name,
     content |-> content, mtype |-> mtype, bot |-> bot, by |-> by]

\* the INSERT of the user message without its ON CONFLICT clause
StoreUserMessagePlain(st, m, by) ==
    Append(st, Row(m.mid, m.user, m.chan, m.user, m.content, "user", "none", by))

\* INSERT ... ON CONFLICT (discord_message_id) DO NOTHING
StoreUserMessage(st, m, by) ==
    IF \E i \in 1..Len(st) : st[i].mid = m.mid
    THEN st
    ELSE Append(st, Row(m.mid, m.user, m.chan, m.user, m.content, "user", "none", by))

\* StoreBotResponse keeping one reply per user and channel: the earlier
\* replies are deleted
StoreBotResponseReplacing(st, m, content, by) ==
    LET Kept(row) == ~(row.mtype = "assistant" /\ row.user = m.user
                       /\ row.chan = m.chan)
    IN  Append(SelectSeq(st, Kept),
               Row(0, m.user, m.chan, BotName, content, "assistant", BotName, by))

\* INSERT of the reply: no message id, the asking user's id, agent_name set
StoreBotResponse(st, m, content, by) ==
    Append(st, Row(0, m.user, m.chan, BotName, content, "assistant", BotName, by))

\* GetConversationHistory without its LIMIT
GetConversationHistoryUnlimited(st, user, chan, limit) ==
    LET keep == {i \in 1..Len(st) : st[i].user = user /\ st[i].chan = chan}
    IN  Reverse(SelectRows(st, keep, 1))

\* GetConversationHistory ordered oldest first: the limit keeps the oldest rows
GetConversationHistoryOldest(st, user, chan, limit) ==
    LET keep == {i \in 1..Len(st) : st[i].user = user /\ st[i].chan = chan}
        rows == SelectRows(st, keep, 1)
    IN  Reverse(SubSeq(rows, 1, Min(Len(rows), limit)))

\* SELECT ... WHERE user_id AND channelId ORDER BY created_at DESC LIMIT limit
GetConversationHistory(st, user, chan, limit) ==
    LET keep == {i \in 1..Len(st) : st[i].user = user /\ st[i].chan = chan}
    IN  Reverse(LastK(SelectRows(st, keep, 1), limit))

----------------------------------------------------------------------------
(* Context assembly *)

Msg(role, content) == [role |-> role, content |-> content]

\* HistoryMessages giving every row the role of a user's message
HistoryMessagesAllUser(history) ==
    LET chron == Reverse(history)
    IN  [i \in 1..Len(chron) |-> Msg("user", chron[i].content)]

\* for msg in reversed(history): role from message_type, content as stored
HistoryMessages(history) ==
    LET chron == Reverse(history)
    IN  [i \in 1..Len(chron) |->
            Msg(IF chron[i].mtype = "user" THEN "user" ELSE "assistant",
                chron[i].content)]

\* if len(conversation_messages) > 25: [first] + last 24
LimitContext(msgs) ==
    IF Len(msgs) > ContextCeiling
    THEN <<msgs[1]>> \o LastK(msgs, ContextCeiling - 1)
    ELSE msgs

\* legacy: the current message is appended unless the last entry so far has
\* the same content
AppendCurrentLegacy(msgs, content) ==
    IF Len(msgs) = 0 \/ msgs[Len(msgs)].content # content
    THEN Append(msgs, Msg("user", content))
    ELSE msgs

\* combined: the current message is always appended
AppendCurrentCombined(msgs, content) == Append(msgs, Msg("user", content))

BuildContextLegacy(history, content) ==
    LimitContext(AppendCurrentLegacy(
        <<Msg("system", SystemPrompt)>> \o HistoryMessages(history), content))

BuildContextCombined(history, content) ==
    LimitContext(AppendCurrentCombined(
        <<Msg("system", SystemPrompt)>> \o HistoryMessages(history), content))


----------------------------------------------------------------------------
(* Handler instances.  Each inbound delivery is handled by one instance;    *)
(* pc is the place the handler has reached.                                 *)

Reqs == 1..MaxReq

IdleReq ==
    [pc |-> "idle", msg |-> NoMsg, hist |-> << >>, ctx |-> << >>,
     reply |-> "", llmOut |-> "none", provCalls |-> 0, rounds |-> 0,
     offered |-> << >>, calls |-> << >>, results |-> << >>,
     fstatus |-> "none", answer |-> ""]

\* the outcomes of one provider call
LlmOutcomes == {"ok", "timeout", "error"}
\* get_response has one except clause for every failure
ApiOutcomes == {"ok", "error"}

\* GrokReply with the timeout clause missing: a timeout gets the general text
GrokReplyOneClause(out, text) ==
    IF out = "ok" THEN text ELSE ErrorText

\* legacy and combined: the except clauses around call_grok4
GrokReply(out, text) ==
    CASE out = "ok" -> text
      [] out = "timeout" -> TimeoutText
      [] OTHER -> ErrorText

BuildContext(v, history, content) ==
    IF v = "legacy" THEN BuildContextLegacy(history, content)
    ELSE BuildContextCombined(history, content)

\* Receive with the combined pipeline yielding to the event loop
ReceiveYielding(r, m) ==
    /\ req[r].pc = "idle"
    /\ \A q \in 1..(r - 1) : req[q].pc # "idle"
    /\ scope \in {"tools", "window"} => r = 1
    /\ scope # "window" => m \in Messages
    /\ loop' = IF variant = "combined" THEN r ELSE loop
    /\ req' = [req EXCEPT ![r] =
                 [@ EXCEPT !.pc = CASE variant = "toolbot" -> "b_store"
                                   [] variant = "botforge" -> "a_store"
                                   [] OTHER -> "hist",
                           !.msg = m]]
    /\ UNCHANGED <<boot, scope, variant, store, sent, trig, disp, mcp>>

\* a message event reaches the handler (the trigger filter has let it pass)
Receive(r, m) ==
    /\ req[r].pc = "idle"
    /\ \A q \in 1..(r - 1) : req[q].pc # "idle"
    /\ scope \in {"tools", "window"} => r = 1
    /\ scope # "window" => m \in Messages
    /\ IF variant = "combined"
       THEN loop = 0 /\ loop' = r
       ELSE UNCHANGED loop
    /\ req' = [req EXCEPT ![r] =
                 [@ EXCEPT !.pc = CASE variant = "toolbot" -> "b_store"
                                   [] variant = "botforge" -> "a_store"
                                   [] OTHER -> "hist",
                           !.msg = m]]
    /\ UNCHANGED <<boot, scope, variant, store, sent, trig, disp, mcp>>

\* Step 2: get conversation history BEFORE storing the current message
GetHistory(r) ==
    /\ variant \in {"legacy", "combined"}
    /\ req[r].pc = "hist"
    /\ req' = [req EXCEPT ![r] =
                 [@ EXCEPT !.pc = "store",
                           !.hist = GetConversationHistory(
                                      store, req[r].msg.user, req[r].msg.chan, HistoryLimit)]]
    /\ UNCHANGED <<boot, scope, variant, store, sent, loop, trig, disp, mcp>>

\* Step 3: store the user message
StoreUser(r) ==
    /\ variant \in {"legacy", "combined"}
    /\ req[r].pc = "store"
    /\ store' = StoreUserMessage(store, req[r].msg, r)
    /\ req' = [req EXCEPT ![r] = [@ EXCEPT !.pc = "llm"]]
    /\ UNCHANGED <<boot, scope, variant, sent, loop, trig, disp, mcp>>

\* Steps 4 and 5: build the context and call the provider once
CallGrok(r) ==
    /\ variant \in {"legacy", "combined"}
    /\ req[r].pc = "llm"
    /\ \E out \in LlmOutcomes, text \in LlmTexts :
         req' = [req EXCEPT ![r] =
                   [@ EXCEPT !.pc = "storebot",
                             !.ctx = BuildContext(variant, req[r].hist, req[r].msg.content),
                             !.llmOut = out,
                             !.reply = GrokReply(out, text),
                             !.provCalls = @ + 1,
                             !.rounds = @ + 1,
                             !.offered = Append(@, FALSE)]]
    /\ UNCHANGED <<boot, scope, variant, store, sent, loop, trig, disp, mcp>>

\* Step 6: store the bot response; in the combined service the synchronous
\* part of the handler ends here and the event loop is free again
StoreBot(r) ==
    /\ variant \in {"legacy", "combined"}
    /\ req[r].pc = "storebot"
    /\ store' = StoreBotResponse(store, req[r].msg, req[r].reply, r)
    /\ req' = [req EXCEPT ![r] = [@ EXCEPT !.pc = "send", !.answer = req[r].reply]]
    /\ loop' = 0
    /\ UNCHANGED <<boot, scope, variant, sent, trig, disp, mcp>>

Sent(r, kind, text) == [by |-> r, kind |-> kind, text |-> text]

\* Step 7: send to Discord; a Discord error ends the legacy handler with a
\* 500 and makes the combined handler try to send its notice
SendReply(r) ==
    /\ variant \in {"legacy", "combined"}
    /\ req[r].pc = "send"
    /\ \/ /\ sent' = Append(sent, Sent(r, "reply", req[r].answer))
          /\ req' = [req EXCEPT ![r] = [@ EXCEPT !.pc = "done"]]
       \/ /\ variant = "legacy"
          /\ req' = [req EXCEPT ![r] = [@ EXCEPT !.pc = "failed"]]
          /\ UNCHANGED sent
       \/ /\ variant = "combined"
          /\ req' = [req EXCEPT ![r] = [@ EXCEPT !.pc = "failed"]]
          /\ \/ sent' = Append(sent, Sent(r, "notice", NoticeText))
             \/ UNCHANGED sent
    /\ UNCHANGED <<boot, scope, variant, store, loop, trig, disp, mcp>>


----------------------------------------------------------------------------
(* The discord_messages table of the API server and its bots *)

\* MCPDiscordBot.store_message(message): bot_name is NULL for a user's message
McpStoreMessage(st, m, by) ==
    Append(st, Row(m.mid, m.user, m.chan, m.user, m.content, "none", "none", by))

\* MCPDiscordBot.store_message(sent_msg, is_bot=True): the id is the one
\* Discord gave the sent message, which is no inbound message's id
McpStoreSent(st, m, text, by) ==
    Append(st, Row(0 - by, BotName, m.chan, BotName, text, "none", BotName, by))

\* DatabaseManager.store_message(webhook_data): the inbound row carries the
\* bot's name, the author's id and the webhook's message id
ApiStoreMessage(st, m, content, by) ==
    Append(st, Row(m.mid, m.user, m.chan, m.user, content, "none", BotName, by))

\* DatabaseManager.store_message(response_data): a copy of the webhook with
\* the content replaced, user_id None and username the bot's name
ApiStoreResponse(st, m, content, by) ==
    Append(st, Row(m.mid, "none", m.chan, BotName, content, "none", BotName, by))

\* MCPDiscordBot.get_conversation_history: the rows as fetched
McpHistoryRows(st, chan, limit) ==
    LET keep == {i \in 1..Len(st) : st[i].chan = chan}
    IN  Reverse(LastK(SelectRows(st, keep, 1), limit))

\* ... and as formatted for the provider: chronological, role by bot_name,
\* content prefixed with the username
McpFormat(rows) ==
    LET chron == Reverse(rows)
    IN  [i \in 1..Len(chron) |->
            Msg(IF chron[i].bot # "none" THEN "assistant" ELSE "user",
                chron[i].name \o ": " \o chron[i].content)]

\* DatabaseManager.get_conversation_history: the rows as fetched
ApiHistoryRows(st, bot, chan, user, limit) ==
    LET keep == {i \in 1..Len(st) :
                    st[i].chan = chan /\ (st[i].user = user \/ st[i].bot = bot)}
    IN  Reverse(LastK(SelectRows(st, keep, 1), limit))

\* ... and as formatted: chronological, role by bot_name, content as stored
ApiFormat(rows, bot) ==
    LET chron == Reverse(rows)
    IN  [i \in 1..Len(chron) |->
            Msg(IF chron[i].bot = bot THEN "assistant" ELSE "user",
                chron[i].content)]

\* bot_config.get('max_context_messages', 10)
MaxContextMessages == 10

----------------------------------------------------------------------------
(* Tools *)

\* the tools MCPDiscordBot registers in self.discord_tools
DiscordTools == {"list_channels", "get_server_info"}

\* a tool call of a model response: a name, and whether its arguments bind
\* to the tool's parameters
ToolCalls ==
    {[tool |-> "list_channels", argsOk |-> TRUE],
     [tool |-> "get_server_info", argsOk |-> TRUE],
     [tool |-> "get_server_info", argsOk |-> FALSE],
     [tool |-> "make_coffee", argsOk |-> TRUE]}

RECURSIVE SeqsUpTo(_, _)
\* the sequences over S of length 1..n
SeqsUpTo(S, n) ==
    IF n = 0 THEN {}
    ELSE {<<x>> : x \in S} \cup
         {Append(q, x) : q \in SeqsUpTo(S, n - 1), x \in S}

CallLists == SeqsUpTo(ToolCalls, MaxCalls)

ToolResult(name, success) == [tool_name |-> name, success |-> success]

RECURSIVE RunToolsNewestFirst(_, _, _)
\* RunTools with each result put in front of the earlier ones
RunToolsNewestFirst(calls, up, acc) ==
    IF calls = << >> THEN [results |-> acc, raised |-> FALSE]
    ELSE LET c == Head(calls)
         IN  IF c.tool \in DiscordTools
             THEN IF c.argsOk
                  THEN RunToolsNewestFirst(Tail(calls), up,
                                           <<ToolResult(c.tool, up)>> \o acc)
                  ELSE [results |-> acc, raised |-> TRUE]
             ELSE RunToolsNewestFirst(Tail(calls), up, acc)

RECURSIVE RunTools(_, _, _)
\* for tool_call in result['tool_calls']: a call naming a registered tool is
\* awaited and its result appended; another name is passed over; a call
\* whose arguments do not bind raises and ends the loop.  The value is
\* [results, raised].
RunTools(calls, up, acc) ==
    IF calls = << >> THEN [results |-> acc, raised |-> FALSE]
    ELSE LET c == Head(calls)
         IN  IF c.tool \in DiscordTools
             THEN IF c.argsOk
                  THEN RunTools(Tail(calls), up, Append(acc, ToolResult(c.tool, up)))
                  ELSE [results |-> acc, raised |-> TRUE]
             ELSE RunTools(Tail(calls), up, acc)

RECURSIVE ToolContext(_)
\* tool_context += f"- {tool_name}: {json.dumps(result)}\n" for each result
ToolContext(results) ==
    IF results = << >> THEN ""
    ELSE "- " \o Head(results).tool_name \o ": " \o
         (IF Head(results).success THEN "ok" ELSE "err") \o ";" \o
         ToolContext(Tail(results))

\* the bot's follow-up message_content
FollowUpPrompt(content) == "based-on-tools: " \o content

\* the API server's current_message for a follow-up request
FollowUpContent(results, prompt) ==
    "results:" \o ToolContext(results) \o " question: " \o prompt

RECURSIVE FallbackSections(_)
FallbackSections(results) ==
    IF results = << >> THEN ""
    ELSE (IF Head(results).success THEN "[" \o Head(results).tool_name \o "]" ELSE "")
         \o FallbackSections(Tail(results))

\* MCPDiscordBot.format_tool_results_fallback
FormatToolResultsFallback(results) ==
    IF \A i \in 1..Len(results) : ~results[i].success
    THEN IssuesText
    ELSE "found:" \o FallbackSections(results)

\* ToolsOffered with the follow-up flag not looked at
ToolsOfferedAlways(toolsAvailable, followUp) == toolsAvailable

\* api_server: tools are built when the webhook names tools_available and is
\* no follow-up request
ToolsOffered(toolsAvailable, followUp) == toolsAvailable /\ ~followUp


----------------------------------------------------------------------------
(* The toolbot and botforge variants: a bot and the API server's handler *)

FollowUp(r) == req[r].pc \in {"f_store", "f_llm", "f_reply"}

\* process_with_tools: store the incoming message
BotStore(r) ==
    /\ variant = "toolbot"
    /\ req[r].pc = "b_store"
    /\ store' = McpStoreMessage(store, req[r].msg, r)
    /\ req' = [req EXCEPT ![r] = [@ EXCEPT !.pc = "b_hist"]]
    /\ UNCHANGED <<boot, scope, variant, sent, loop, trig, disp, mcp>>

\* process_with_tools: get the conversation history from the database
BotHistory(r) ==
    /\ variant = "toolbot"
    /\ req[r].pc = "b_hist"
    /\ req' = [req EXCEPT ![r] =
                 [@ EXCEPT !.pc = "a_store",
                           !.hist = McpHistoryRows(store, req[r].msg.chan, McpHistoryLimit)]]
    /\ UNCHANGED <<boot, scope, variant, store, sent, loop, trig, disp, mcp>>

\* process_discord_message: store the message of the webhook
ApiStore(r) ==
    /\ variant \in {"toolbot", "botforge"}
    /\ req[r].pc \in {"a_store", "f_store"}
    /\ store' = ApiStoreMessage(store, req[r].msg,
                    IF FollowUp(r) THEN FollowUpPrompt(req[r].msg.content)
                    ELSE req[r].msg.content, r)
    /\ req' = [req EXCEPT ![r] =
                 [@ EXCEPT !.pc = IF FollowUp(r) THEN "f_llm" ELSE "a_llm"]]
    /\ UNCHANGED <<boot, scope, variant, sent, loop, trig, disp, mcp>>

\* the history the handler uses: the webhook's, or its own query
ApiHistory(r) ==
    IF variant = "toolbot" THEN req[r].hist
    ELSE ApiHistoryRows(store, BotName, req[r].msg.chan, req[r].msg.user,
                        MaxContextMessages)

ApiHistoryMessages(r) ==
    IF variant = "toolbot" THEN McpFormat(req[r].hist)
    ELSE ApiFormat(ApiHistory(r), BotName)

\* the current_message of the handler
ApiCurrent(r) ==
    IF FollowUp(r)
    THEN Msg("user", FollowUpContent(req[r].results,
                                     FollowUpPrompt(req[r].msg.content)))
    ELSE Msg("user", req[r].msg.content)

\* process_discord_message: history, messages, tools and one get_response.
\* The provider answers with text, fails, or (only when offered tools) asks
\* for tool calls.  The handler may also raise before it calls the provider
\* and answer 500: the bot then sends its notice or, for a follow-up, the
\* manually formatted summary.
ApiCall(r) ==
    /\ variant \in {"toolbot", "botforge"}
    /\ req[r].pc \in {"a_llm", "f_llm"}
    /\ LET tools == ToolsOffered(variant = "toolbot", FollowUp(r))
           next == IF FollowUp(r) THEN "f_reply" ELSE "a_reply"
           ctx == <<Msg("system", Personality)>> \o ApiHistoryMessages(r)
                    \o <<ApiCurrent(r)>>
       IN  \/ \E out \in ApiOutcomes, text \in LlmTexts :
                req' = [req EXCEPT ![r] =
                          [@ EXCEPT !.pc = next, !.hist = ApiHistory(r),
                                    !.ctx = ctx, !.llmOut = out,
                                    !.reply = IF out = "ok" THEN text
                                              ELSE ProviderErrorText,
                                    !.provCalls = @ + 1, !.rounds = @ + 1,
                                    !.offered = Append(@, tools)]]
           \/ /\ tools
              /\ scope = "tools"
              /\ \E cl \in CallLists :
                   req' = [req EXCEPT ![r] =
                             [@ EXCEPT !.pc = next, !.hist = ApiHistory(r),
                                       !.ctx = ctx, !.llmOut = "tool_calls",
                                       !.reply = "", !.calls = cl,
                                       !.provCalls = @ + 1, !.rounds = @ + 1,
                                       !.offered = Append(@, tools)]]
           \/ req' = [req EXCEPT ![r] =
                       IF FollowUp(r)
                       THEN [@ EXCEPT !.pc = "b_send", !.fstatus = "error",
                                      !.answer = FormatToolResultsFallback(
                                                   req[r].results)]
                       ELSE [@ EXCEPT !.pc = "b_trouble"]]
    /\ UNCHANGED <<boot, scope, variant, store, sent, loop, trig, disp, mcp>>

\* the handler stores a text response and answers 200; the bot reads the
\* answer, unless its 30 s client timeout has passed meanwhile
ApiReply(r) ==
    /\ variant \in {"toolbot", "botforge"}
    /\ req[r].pc \in {"a_reply", "f_reply"}
    /\ store' = IF req[r].llmOut = "tool_calls" THEN store
                ELSE ApiStoreResponse(store, req[r].msg, req[r].reply, r)
    /\ \/ req' = [req EXCEPT ![r] =
                    [@ EXCEPT !.pc = IF req[r].llmOut = "tool_calls" /\ ~FollowUp(r)
                                     THEN "b_tools" ELSE "b_send",
                              !.answer = req[r].reply,
                              !.fstatus = IF FollowUp(r) THEN "ok" ELSE @]]
       \/ req' = [req EXCEPT ![r] =
                    [@ EXCEPT !.pc = IF variant = "toolbot" THEN "aborted"
                                     ELSE "b_failure",
                              !.fstatus = IF FollowUp(r) THEN "raised" ELSE @]]
    /\ UNCHANGED <<boot, scope, variant, sent, loop, trig, disp, mcp>>

\* process_with_tools: execute the tool calls and collect the results
BotTools(r) ==
    /\ variant = "toolbot"
    /\ req[r].pc = "b_tools"
    /\ \E up \in BOOLEAN :
         LET run == RunTools(req[r].calls, up, << >>)
         IN  req' = [req EXCEPT ![r] =
                       [@ EXCEPT !.results = run.results,
                                 !.pc = CASE run.raised -> "aborted"
                                          [] run.results = << >> -> "b_send"
                                          [] OTHER -> "f_store"]]
    /\ UNCHANGED <<boot, scope, variant, store, sent, loop, trig, disp, mcp>>

\* the text the bot sends: an empty answer is replaced
Outgoing(answer) == IF answer = "" THEN EmptyText ELSE answer

\* the bot sends the answer; in discord_bot_with_mcp a Discord error leaves
\* the handler, in discord_bot it is caught and a notice is tried
BotSend(r) ==
    /\ variant \in {"toolbot", "botforge"}
    /\ req[r].pc = "b_send"
    /\ \/ /\ sent' = Append(sent, Sent(r, "reply", Outgoing(req[r].answer)))
          /\ req' = [req EXCEPT ![r] =
                       [@ EXCEPT !.answer = Outgoing(@),
                                 !.pc = IF variant = "toolbot" THEN "b_storebot"
                                        ELSE "done"]]
       \/ /\ req' = [req EXCEPT ![r] =
                       [@ EXCEPT !.answer = Outgoing(@),
                                 !.pc = IF variant = "toolbot" THEN "aborted"
                                        ELSE "b_failure"]]
          /\ UNCHANGED sent
    /\ UNCHANGED <<boot, scope, variant, store, loop, trig, disp, mcp>>

\* discord_bot_with_mcp: store the bot response after the send
BotStoreSent(r) ==
    /\ variant = "toolbot"
    /\ req[r].pc = "b_storebot"
    /\ store' = McpStoreSent(store, req[r].msg, req[r].answer, r)
    /\ req' = [req EXCEPT ![r] = [@ EXCEPT !.pc = "done"]]
    /\ UNCHANGED <<boot, scope, variant, sent, loop, trig, disp, mcp>>

\* the bots' notices: the API server's status was not 200 (b_trouble), or
\* discord_bot's handler raised (b_failure); when the send of the notice
\* raises, discord_bot's except clause catches the one of b_trouble, and
\* nothing catches the others: the exception leaves the handler
BotNotice(r) ==
    /\ variant \in {"toolbot", "botforge"}
    /\ req[r].pc \in {"b_trouble", "b_failure"}
    /\ \/ /\ sent' = Append(sent, Sent(r, "notice",
                        IF req[r].pc = "b_trouble" THEN TroubleText ELSE FailureText))
          /\ req' = [req EXCEPT ![r] = [@ EXCEPT !.pc = "failed"]]
       \/ /\ UNCHANGED sent
          /\ req' = [req EXCEPT ![r] =
                       [@ EXCEPT !.pc = IF variant = "botforge" /\ @ = "b_trouble"
                                        THEN "b_failure" ELSE "aborted"]]
    /\ UNCHANGED <<boot, scope, variant, store, loop, trig, disp, mcp>>

----------------------------------------------------------------------------
(* The pipelines *)

Init ==
    /\ scope = "pipes"
    /\ boot = [phase |-> "off"]
    /\ variant \in Variants
    /\ store = << >>
    /\ req = [r \in Reqs |-> IdleReq]
    /\ sent = << >>
    /\ loop = 0
    /\ trig = [phase |-> "off"]
    /\ disp = [phase |-> "off"]
    /\ mcp = [phase |-> "off"]

Next ==
    \E r \in Reqs :
        \/ \E m \in Messages : Receive(r, m)
        \/ GetHistory(r)
        \/ StoreUser(r)
        \/ CallGrok(r)
        \/ StoreBot(r)
        \/ SendReply(r)
        \/ BotStore(r)
        \/ BotHistory(r)
        \/ ApiStore(r)
        \/ ApiCall(r)
        \/ ApiReply(r)
        \/ BotSend(r)
        \/ BotStoreSent(r)
        \/ BotNotice(r)

Spec == Init /\ [][Next]_vars

\* one handler of the toolbot variant, with every list of tool calls
InitTools ==
    /\ scope = "tools"
    /\ boot = [phase |-> "off"]
    /\ variant = "toolbot"
    /\ store = << >>
    /\ req = [r \in Reqs |-> IdleReq]
    /\ sent = << >>
    /\ loop = 0
    /\ trig = [phase |-> "off"]
    /\ disp = [phase |-> "off"]
    /\ mcp = [phase |-> "off"]

NextTools ==
    \E r \in Reqs :
        \/ \E m \in Messages : Receive(r, m)
        \/ BotStore(r)
        \/ BotHistory(r)
        \/ ApiStore(r)
        \/ ApiCall(r)
        \/ ApiReply(r)
        \/ BotTools(r)
        \/ BotSend(r)
        \/ BotStoreSent(r)
        \/ BotNotice(r)

SpecTools == InitTools /\ [][NextTools]_vars


----------------------------------------------------------------------------
(* Claims about the pipelines *)

\* the handler has passed the place where it stores the reply of its last
\* provider call
PastPersist(r) ==
    req[r].pc \in {"send", "done", "failed", "b_send", "b_storebot",
                   "aborted", "b_failure"}

\* a row written for a reply of the bot
IsAssistantRow(row) ==
    \/ row.mtype = "assistant"
    \/ row.mtype = "none" /\ row.bot # "none" /\ row.name = BotName

RowBy(r, content) ==
    \E i \in 1..Len(store) :
        store[i].by = r /\ store[i].content = content /\ IsAssistantRow(store[i])

SentBy(r, content) ==
    \E j \in 1..Len(sent) :
        sent[j].by = r /\ sent[j].text = content /\ sent[j].kind = "reply"

\* C1: in every relay variant the history read for a message precedes the
\* write of that message, so the history a handler reads never contains the
\* row the same handler wrote for its message.
C1_HistoryExcludesCurrent ==
    \A r \in Reqs : \A i \in 1..Len(req[r].hist) : req[r].hist[i].by # r

\* C6: a handler makes at most two provider rounds, tools are offered at
\* most on the first of them, and a second round is made only after a
\* first round that carried tool calls.
C6_TwoRoundsNoToolsOnFollowUp ==
    \A r \in Reqs :
        /\ req[r].rounds <= 2
        /\ Len(req[r].offered) = req[r].rounds
        /\ \A i \in 2..Len(req[r].offered) : ~req[r].offered[i]
        /\ req[r].rounds = 2 => req[r].calls # << >> /\ req[r].offered[1]

C6_Witness ==
    \E r \in Reqs :
        req[r].pc = "done" /\ req[r].rounds = 2 /\ req[r].offered = <<TRUE, FALSE>>

RECURSIVE KnownNames(_)
\* the names of the calls that name a registered tool, in list order
KnownNames(calls) ==
    IF calls = << >> THEN << >>
    ELSE (IF Head(calls).tool \in DiscordTools THEN <<Head(calls).tool>> ELSE << >>)
         \o KnownNames(Tail(calls))

ResultNames(results) == [i \in 1..Len(results) |-> results[i].tool_name]

InFollowUp(r) == req[r].pc \in {"f_store", "f_llm", "f_reply"}

\* the follow-up request's provider round has been made
FollowUpAsked(r) == req[r].rounds = 2

C8_FallbackOnFollowUpFailure ==
    \A r \in Reqs :
        req[r].rounds = 2 /\ req[r].llmOut = "error"
        /\ req[r].pc \in {"b_send", "b_storebot", "done"}
        => req[r].answer = FormatToolResultsFallback(req[r].results)

\* C9: every provider round is one invocation; a timeout or another provider
\* error yields the canned text of the variant, and the handler then stores
\* that text as the reply and, where the send completes, has sent it.
C9_CannedTextNoRetry ==
    \A r \in Reqs :
        /\ req[r].provCalls = req[r].rounds
        /\ req[r].llmOut = "timeout" => req[r].reply = TimeoutText
        /\ req[r].llmOut = "error"
           => req[r].reply = IF variant \in {"legacy", "combined"}
                             THEN ErrorText ELSE ProviderErrorText
        /\ req[r].llmOut \in {"timeout", "error"} /\ PastPersist(r)
           => RowBy(r, req[r].reply)
        /\ req[r].llmOut \in {"timeout", "error"} /\ req[r].pc = "done"
           => SentBy(r, req[r].reply)

C9_Witness ==
    \E r \in Reqs :
        /\ variant = "legacy"
        /\ req[r].llmOut = "timeout"
        /\ req[r].pc = "done"
        /\ SentBy(r, TimeoutText)

\* C10: every assistant row in the store is the text of a send that has
\* completed.
C10_AssistantRowAfterSend ==
    \A i \in 1..Len(store) :
        IsAssistantRow(store[i]) => SentBy(store[i].by, store[i].content)


\* the history of a handler as its variant replays it to the provider
Replayed(r) ==
    IF variant \in {"legacy", "combined"} THEN HistoryMessages(req[r].hist)
    ELSE IF variant = "toolbot" THEN McpFormat(req[r].hist)
    ELSE ApiFormat(req[r].hist, BotName)

\* the role of the author a row was written for: the username column holds
\* the human's name for an inbound message and the bot's for a reply
AuthorRole(row) == IF row.name = BotName THEN "assistant" ELSE "user"

\* C25: every history entry replayed to the provider has the role of the
\* author of its row: user for a row written for a human's message,
\* assistant for a row written for a reply of the bot.
C25_ReplayedRoleIsAuthorRole ==
    \A r \in Reqs :
        \A i \in 1..Len(req[r].hist) :
            Replayed(r)[i].role = AuthorRole(Reverse(req[r].hist)[i])


\* the handler is between its history read and the store of its reply
InPipeline(r) == req[r].pc \in {"hist", "store", "llm", "storebot"}

\* C27: in the combined service, while one message's pipeline (history
\* read, store of the user message, provider call, store of the reply) is
\* under way no other handler starts or takes a pipeline step; another
\* handler can at most be at its send to Discord.
C27_PipelineNotInterleaved ==
    [][variant = "combined" =>
         \A r \in Reqs :
            InPipeline(r) =>
               \A q \in Reqs \ {r} :
                  /\ ~InPipeline(q) /\ ~InPipeline(q)'
                  /\ req'[q] = req[q] \/ req[q].pc = "send"]_vars

C27_Witness ==
    /\ variant = "combined"
    /\ \E r, q \in Reqs :
          /\ req[r].pc = "llm"
          /\ req[q].pc = "send"
          /\ \E i \in 1..Len(store) : store[i].by = q /\ IsAssistantRow(store[i])



----------------------------------------------------------------------------
(* The context assemblers on stores of many rows.  The store holds the rows *)
(* of earlier exchanges (by = 0): a user's message and the reply to it,     *)
(* alternating, as the handlers write them.                                 *)

Patterns == {"plain", "mixed", "echo"}

\* the author of the i-th row's exchange
GenUser(i, pat) == IF pat = "mixed" /\ i % 4 \in {0, 3} THEN "u2" ELSE "u1"

\* the text of the i-th row: a user's text on odd rows, a reply on even rows
GenText(i, pat) ==
    IF i % 2 = 1 THEN (IF i % 4 = 1 THEN "a" ELSE "b")
    ELSE (IF pat = "echo" THEN "a" ELSE "r")

GenRow(v, i, pat) ==
    IF v \in {"legacy", "combined"}
    THEN IF i % 2 = 1
         THEN Row(10 + i, GenUser(i, pat), "c1", GenUser(i, pat), GenText(i, pat),
                  "user", "none", 0)
         ELSE Row(0, GenUser(i, pat), "c1", BotName, GenText(i, pat),
                  "assistant", BotName, 0)
    ELSE IF i % 2 = 1
         THEN Row(10 + i, GenUser(i, pat), "c1", GenUser(i, pat), GenText(i, pat),
                  "none", IF v = "toolbot" THEN "none" ELSE BotName, 0)
         ELSE Row(10 + i - 1, "none", "c1", BotName, GenText(i, pat),
                  "none", BotName, 0)

GenStore(v, n, pat) == [i \in 1..n |-> GenRow(v, i, pat)]

InitWindow ==
    /\ scope = "window"
    /\ boot = [phase |-> "off"]
    /\ variant \in Variants
    /\ \E n \in 0..MaxStored, pat \in Patterns : store = GenStore(variant, n, pat)
    /\ req = [r \in Reqs |-> IdleReq]
    /\ sent = << >>
    /\ loop = 0
    /\ trig = [phase |-> "off"]
    /\ disp = [phase |-> "off"]
    /\ mcp = [phase |-> "off"]

NextWindow ==
    \E r \in Reqs :
        \/ \E m \in WindowMessages : Receive(r, m)
        \/ GetHistory(r)
        \/ StoreUser(r)
        \/ CallGrok(r)
        \/ BotStore(r)
        \/ BotHistory(r)
        \/ ApiStore(r)
        \/ ApiCall(r)

SpecWindow == InitWindow /\ [][NextWindow]_vars

----------------------------------------------------------------------------
(* Claims about the context assemblers *)

\* the rows stored before the handler started, for its user and channel
Prior(r) ==
    LET Mine(row) == /\ row.by = 0
                     /\ row.user = req[r].msg.user
                     /\ row.chan = req[r].msg.chan
    IN  SelectSeq(store, Mine)

\* the min(N, 15) most recent of them as role-tagged messages, oldest first
PriorWindow(r) ==
    LET P == Prior(r)
        k == Min(Len(P), HistoryLimit)
    IN  [i \in 1..k |->
            Msg(IF P[Len(P) - k + i].mtype = "user" THEN "user" ELSE "assistant",
                P[Len(P) - k + i].content)]

Current(r) == Msg("user", req[r].msg.content)

Assembled(r) == variant \in {"legacy", "combined"} /\ req[r].ctx # << >>

\* C2 as claimed: the context is the system message, the min(N, L) most
\* recent prior messages in chronological order, and the current message
\* once as the last entry.
C2_SystemHistoryCurrent ==
    \A r \in Reqs :
        Assembled(r) /\ variant = "legacy"
        => req[r].ctx = <<Msg("system", SystemPrompt)>> \o PriorWindow(r)
                          \o <<Current(r)>>

\* C2 as amended: ... and the current message once as the last entry, except
\* that the legacy handler appends nothing when the entry before it (the
\* newest prior message, or the system message when there is none) has the
\* same content.
C2_SystemHistoryCurrentUnlessSame ==
    \A r \in Reqs :
        Assembled(r)
        => LET head == <<Msg("system", SystemPrompt)>> \o PriorWindow(r)
               same == head[Len(head)].content = req[r].msg.content
           IN  req[r].ctx = IF variant = "legacy" /\ same THEN head
                            ELSE head \o <<Current(r)>>

C2_Witness ==
    \E r \in Reqs :
        /\ Assembled(r) /\ variant = "legacy"
        /\ Len(Prior(r)) > HistoryLimit
        /\ Len(req[r].ctx) = HistoryLimit + 1

\* C3: the current message is not appended when the last history entry has
\* the same content, and is appended as the final user turn in every other
\* case.
C3_DedupGuard ==
    \A r \in Reqs :
        Assembled(r)
        => LET hist == PriorWindow(r)
               same == hist # << >> /\ hist[Len(hist)].content = req[r].msg.content
           IN  IF same
               THEN req[r].ctx = <<Msg("system", SystemPrompt)>> \o hist
               ELSE req[r].ctx = <<Msg("system", SystemPrompt)>> \o hist
                                   \o <<Current(r)>>

\* C4: the list submitted to the provider has at most 25 entries.
C4_AtMostCeiling ==
    \A r \in Reqs : Len(req[r].ctx) <= ContextCeiling


\* the context of a handler before the ceiling is applied
Untruncated(r) ==
    LET msgs == <<Msg("system", SystemPrompt)>> \o HistoryMessages(req[r].hist)
    IN  IF variant = "legacy" THEN AppendCurrentLegacy(msgs, req[r].msg.content)
        ELSE AppendCurrentCombined(msgs, req[r].msg.content)

\* C28: in the legacy and combined variants the history read has at most 15
\* rows, the assembled context at most 17 entries, and the cut to 25 is
\* never made: the context is the assembled list as it is.
C28_CeilingNeverReached ==
    variant \in {"legacy", "combined"} =>
       \A r \in Reqs :
          /\ Len(req[r].hist) <= HistoryLimit
          /\ Len(req[r].ctx) <= HistoryLimit + 2
          /\ req[r].ctx # << >>
             => /\ Len(Untruncated(r)) <= ContextCeiling
                /\ req[r].ctx = Untruncated(r)

C28_Witness ==
    /\ variant \in {"legacy", "combined"}
    /\ \E r \in Reqs :
          /\ Len(req[r].hist) = HistoryLimit
          /\ Len(req[r].ctx) = HistoryLimit + 2
          /\ Len(store) > ContextCeiling


----------------------------------------------------------------------------
(* The trigger filters of the Discord clients *)

TriggerVariants == {"mcpbot", "botforge", "toolbot", "combined", "forwarder"}

\* str.lower() on the characters the messages use
Lower(c) ==
    CASE c = "G" -> "g" [] c = "R" -> "r" [] c = "O" -> "o" [] c = "K" -> "k"
      [] OTHER -> c

LowerSeq(s) == [i \in 1..Len(s) |-> Lower(s[i])]

\* Python's `w in s` on strings
Contains(s, w) ==
    \E i \in 0..(Len(s) - Len(w)) : SubSeq(s, i + 1, i + Len(w)) = w

TriggerWords == {<<"G", "r", "o", "k">>}

Contents ==
    { <<"h", "i">>,
      <<"g", "r", "o", "k">>,
      <<"x", "G", "R", "O", "K", "y">>,
      <<"g", "r", "o", " ", "k">>,
      <<"<", "@", "&", "7", ">">>,
      <<"<", "@", "4", "2", ">">> }

\* str(self.user.id)
BotId == <<"4", "2">>

Authors == {"human", "self", "otherbot"}
ReplyTargets == {"none", "self", "otherbot", "human", "gone"}

Events ==
    [author : Authors, mentions : SUBSET {"self", "otherbot"}, content : Contents,
     replyTo : ReplyTargets, roleMentions : BOOLEAN]

IsBot(who) == who \in {"self", "otherbot"}

\* mcp_discord_bot.should_respond
ShouldRespond(e) ==
    \/ \E t \in TriggerWords : Contains(LowerSeq(e.content), LowerSeq(t))
    \/ \E m \in e.mentions : IsBot(m)
    \/ e.replyTo \in {"self", "otherbot"}

\* the mention and trigger-word test of discord_bot and discord_bot_with_mcp
MentionedOrTriggered(e) ==
    \/ "self" \in e.mentions
    \/ \E t \in TriggerWords : Contains(LowerSeq(e.content), LowerSeq(t))

\* the test of discord_combined_service.handle_discord_message
CombinedTriggered(e) ==
    \/ "self" \in e.mentions
    \/ Contains(LowerSeq(e.content), <<"g", "r", "o", "k">>)
    \/ e.roleMentions \/ Contains(e.content, <<"<", "@", "&">>)

\* the test of discord_forwarder.on_message
ForwarderTriggered(e) ==
    \/ CombinedTriggered(e)
    \/ Contains(e.content, BotId)

\* Responds without the test of the author
RespondsToAnyAuthor(v, e) ==
    CASE v = "mcpbot"    -> ShouldRespond(e)
      [] v = "combined"  -> CombinedTriggered(e)
      [] v = "forwarder" -> ForwarderTriggered(e)
      [] OTHER           -> MentionedOrTriggered(e)

\* whether on_message hands the message to the pipeline
Responds(v, e) ==
    CASE v = "mcpbot"    -> ~IsBot(e.author) /\ ShouldRespond(e)
      [] v = "combined"  -> e.author # "self" /\ CombinedTriggered(e)
      [] v = "forwarder" -> e.author # "self" /\ ForwarderTriggered(e)
      [] OTHER          -> ~IsBot(e.author) /\ MentionedOrTriggered(e)

OnMessage(e) ==
    /\ trig.phase = "off"
    /\ trig' = [phase |-> "seen", event |-> e, responded |-> FALSE]
    /\ UNCHANGED <<boot, scope, variant, store, req, sent, loop, disp, mcp>>

Filter ==
    /\ trig.phase = "seen"
    /\ trig' = [trig EXCEPT !.phase = "decided",
                            !.responded = Responds(variant, trig.event)]
    /\ UNCHANGED <<boot, scope, variant, store, req, sent, loop, disp, mcp>>

InitTrigger ==
    /\ scope = "trigger"
    /\ boot = [phase |-> "off"]
    /\ variant \in TriggerVariants
    /\ store = << >>
    /\ req = [r \in Reqs |-> IdleReq]
    /\ sent = << >>
    /\ loop = 0
    /\ trig = [phase |-> "off"]
    /\ disp = [phase |-> "off"]
    /\ mcp = [phase |-> "off"]

NextTrigger ==
    \/ \E e \in Events : OnMessage(e)
    \/ Filter

SpecTrigger == InitTrigger /\ [][NextTrigger]_vars

\* C5: a bot responds to a message exactly when the author is not the bot
\* itself and the message mentions this bot, contains a trigger word
\* (case-insensitive substring) or replies to one of this bot's messages.
C5_TriggerFilter ==
    trig.phase = "decided"
    => (trig.responded <=>
          /\ trig.event.author # "self"
          /\ \/ "self" \in trig.event.mentions
             \/ \E t \in TriggerWords :
                    Contains(LowerSeq(trig.event.content), LowerSeq(t))
             \/ trig.event.replyTo = "self")


----------------------------------------------------------------------------
(* Claims about the message store *)

\* the rows of the store that carry message id mid
RowsWithId(mid) == {i \in 1..Len(store) : store[i].mid = mid}

\* C11: once a handler has finished with an inbound message, the store holds
\* exactly one row for that message id, however many times the id was
\* processed.
C11_OneRowPerMessageId ==
    \A r \in Reqs :
        req[r].pc = "done" => Cardinality(RowsWithId(req[r].msg.mid)) = 1


----------------------------------------------------------------------------
(* The response dispatchers: a reply is a sequence of characters *)

\* paragraphs in a reply
MaxParas == 3

\* if len(ai_response) > 1900
PackThreshold == 1900
\* if len(current_chunk + paragraph) > 1800
PackLimit == 1800
\* discord_bot and mcp_discord_bot: if len(...) > 2000
SliceThreshold == 2000
\* discord_bot: ai_response[i:i+1900]
SliceSize == 1900
\* mcp_discord_bot: response[i:i+2000]
McpSliceSize == 2000

DispatchVariants == {"toolbot", "botforge", "mcpbot"}

NL == "\n"
ParaSep == <<NL, NL>>
\* "*...continued*\n\n"
PackMarker ==
    <<"*", ".", ".", ".", "c", "o", "n", "t", "i", "n", "u", "e", "d", "*", NL, NL>>
\* "(continued...)\n"
SliceMarker ==
    <<"(", "c", "o", "n", "t", "i", "n", "u", "e", "d", ".", ".", ".", ")", NL>>

IsSpace(c) == c \in {" ", NL}

RECURSIVE FirstText(_, _)
\* the first index from i on that holds no whitespace, or Len(s) + 1
FirstText(s, i) ==
    IF i > Len(s) THEN i
    ELSE IF IsSpace(s[i]) THEN FirstText(s, i + 1) ELSE i

RECURSIVE LastText(_, _)
\* the last index up to i that holds no whitespace, or 0
LastText(s, i) ==
    IF i < 1 THEN 0
    ELSE IF IsSpace(s[i]) THEN LastText(s, i - 1) ELSE i

\* str.strip()
Strip(s) == SubSeq(s, FirstText(s, 1), LastText(s, Len(s)))

RECURSIVE Split(_, _)
\* s[from..].split("\n\n"): the separators are found left to right
Split(s, from) ==
    LET at == {i \in from..(Len(s) - 1) : s[i] = NL /\ s[i + 1] = NL}
    IN  IF at = {} THEN <<SubSeq(s, from, Len(s))>>
        ELSE LET i == CHOOSE j \in at : \A k \in at : j <= k
             IN  <<SubSeq(s, from, i - 1)>> \o Split(s, i + 2)

RECURSIVE PackDropsOnClose(_, _, _, _)
\* Pack with the paragraph that closes a chunk left out of the next one
PackDropsOnClose(paras, i, current, chunks) ==
    IF i > Len(paras)
    THEN IF Strip(current) # << >> THEN Append(chunks, Strip(current)) ELSE chunks
    ELSE LET close == Len(current) + Len(paras[i]) > PackLimit /\ current # << >>
         IN  PackDropsOnClose(paras, i + 1,
                  IF close THEN << >> ELSE current \o paras[i] \o ParaSep,
                  IF close THEN Append(chunks, Strip(current)) ELSE chunks)

RECURSIVE Pack(_, _, _, _)
\* for paragraph in ai_response.split("\n\n"): a chunk is closed when the
\* next paragraph would take it over 1800 characters, and only when it holds
\* something; what is left at the end is a chunk when it is not blank
Pack(paras, i, current, chunks) ==
    IF i > Len(paras)
    THEN IF Strip(current) # << >> THEN Append(chunks, Strip(current)) ELSE chunks
    ELSE LET close == Len(current) + Len(paras[i]) > PackLimit /\ current # << >>
         IN  Pack(paras, i + 1,
                  (IF close THEN << >> ELSE current) \o paras[i] \o ParaSep,
                  IF close THEN Append(chunks, Strip(current)) ELSE chunks)

\* [text[i:i+n] for i in range(0, len(text), n)]
Slices(text, n) ==
    [k \in 1..((Len(text) + n - 1) \div n) |->
        SubSeq(text, (k - 1) * n + 1, Min(k * n, Len(text)))]

\* the chunks of a reply, before the markers
Chunks(v, text) ==
    CASE v = "toolbot"  -> IF Len(text) > PackThreshold
                           THEN Pack(Split(text, 1), 1, << >>, << >>)
                           ELSE <<text>>
      [] v = "botforge" -> IF Len(text) > SliceThreshold
                           THEN Slices(text, SliceSize) ELSE <<text>>
      [] OTHER          -> IF Len(text) > SliceThreshold
                           THEN Slices(text, McpSliceSize) ELSE <<text>>

\* the marker put in front of chunk i
Marker(v, i) ==
    IF i = 1 THEN << >>
    ELSE CASE v = "toolbot" -> PackMarker
           [] v = "botforge" -> SliceMarker
           [] OTHER -> << >>

\* the paragraphs a reply is made of: n letters, the third of each three
\* being the paragraph's own tag
Body(n, tag) == [i \in 1..n |-> IF i % 3 = 0 THEN tag ELSE "x"]

ParaKinds == {"short", "mid", "long", "huge", "blank"}

Tags == <<"p", "q", "r", "s", "t">>

\* a paragraph of a kind at position k; "blank" begins with a line break,
\* as after three line breaks in a row
Para(kind, k) ==
    CASE kind = "short" -> Body(5, Tags[k])
      [] kind = "mid"   -> Body(900, Tags[k])
      [] kind = "long"  -> Body(1000, Tags[k])
      [] kind = "huge"  -> Body(2100, Tags[k])
      [] OTHER          -> <<NL>> \o Body(900, Tags[k])

RECURSIVE Join(_, _)
\* "\n\n".join(paragraphs) for the kinds from position k on
Join(kinds, k) ==
    IF k > Len(kinds) THEN << >>
    ELSE Para(kinds[k], k) \o (IF k < Len(kinds) THEN ParaSep ELSE << >>)
           \o Join(kinds, k + 1)

Replies == {Join(kinds, 1) : kinds \in SeqsUpTo(ParaKinds, MaxParas)}

\* the reply reaches the dispatcher
Dispatch(v, text) ==
    /\ disp.phase = "off"
    /\ disp' = [phase |-> "sending", text |-> text, chunks |-> Chunks(v, text),
                next |-> 1, msgs |-> << >>]
    /\ UNCHANGED <<boot, scope, variant, store, req, sent, loop, trig, mcp>>

\* for i, chunk in enumerate(chunks): the marker is put in front and the
\* chunk is sent (toolbot: when it is not blank); a Discord error ends the loop
SendChunk ==
    /\ disp.phase = "sending"
    /\ disp.next <= Len(disp.chunks)
    /\ LET m == Marker(variant, disp.next) \o disp.chunks[disp.next]
           skip == variant = "toolbot" /\ Len(disp.text) > PackThreshold
                     /\ Strip(m) = << >>
       IN  \/ disp' = [disp EXCEPT !.next = @ + 1,
                                   !.msgs = IF skip THEN @ ELSE Append(@, m),
                                   !.phase = IF disp.next = Len(disp.chunks)
                                             THEN "sent" ELSE @]
           \/ /\ ~skip
              /\ disp' = [disp EXCEPT !.phase = "raised"]
    /\ UNCHANGED <<boot, scope, variant, store, req, sent, loop, trig, mcp>>

InitDispatch ==
    /\ scope = "dispatch"
    /\ boot = [phase |-> "off"]
    /\ variant \in DispatchVariants
    /\ store = << >>
    /\ req = [r \in Reqs |-> IdleReq]
    /\ sent = << >>
    /\ loop = 0
    /\ trig = [phase |-> "off"]
    /\ disp = [phase |-> "off"]
    /\ mcp = [phase |-> "off"]

NextDispatch ==
    \/ \E text \in Replies : Dispatch(variant, text)
    \/ SendChunk

SpecDispatch == InitDispatch /\ [][NextDispatch]_vars


----------------------------------------------------------------------------
(* Claims about the response dispatchers *)

Oversized == Len(disp.text) > (IF variant = "toolbot" THEN PackThreshold
                               ELSE SliceThreshold)

\* C12: every message a dispatcher sends is no longer than its limit: 1900
\* characters in the paragraph-packing dispatcher, 2000 in the fixed-slice
\* dispatchers.
C12_MessagesWithinLimit ==
    disp.phase # "off"
    => \A i \in 1..Len(disp.msgs) :
          Len(disp.msgs[i]) <= (IF variant = "toolbot" THEN PackThreshold
                                ELSE SliceThreshold)

RECURSIVE Rebuild(_, _)
\* the messages from i on without their markers, put together again: with
\* the paragraph separator between paragraph chunks, end to end between slices
Rebuild(msgs, i) ==
    IF i > Len(msgs) THEN << >>
    ELSE SubSeq(msgs[i], Len(Marker(variant, i)) + 1, Len(msgs[i]))
           \o (IF variant = "toolbot" /\ i < Len(msgs) THEN ParaSep ELSE << >>)
           \o Rebuild(msgs, i + 1)

NoSpace(s) == LET Inked(c) == ~IsSpace(c) IN SelectSeq(s, Inked)

\* C13 as claimed: the chunks of an oversized reply, sent in order and put
\* together again without the markers, are the original reply.
C13_ChunksRebuildReply ==
    disp.phase = "sent" /\ Oversized => Rebuild(disp.msgs, 1) = disp.text

\* C13 as amended: ... are the original reply for the fixed-slice
\* dispatchers, and for the paragraph-packing dispatcher the original reply
\* up to the white space each chunk is stripped of.
C13_ChunksRebuildReplyUpToSpace ==
    disp.phase = "sent" /\ Oversized
    => IF variant = "toolbot"
       THEN NoSpace(Rebuild(disp.msgs, 1)) = NoSpace(disp.text)
       ELSE Rebuild(disp.msgs, 1) = disp.text

C13_Witness ==
    /\ disp.phase = "sent" /\ Oversized
    /\ variant = "toolbot"
    /\ Len(disp.msgs) = 3
    /\ Rebuild(disp.msgs, 1) # disp.text


----------------------------------------------------------------------------
(* Claims about the whole exchange *)

AssistantRowsBy(r) ==
    {i \in 1..Len(store) : store[i].by = r /\ IsAssistantRow(store[i])}

RepliesSentBy(r) ==
    {j \in 1..Len(sent) : sent[j].by = r /\ sent[j].kind = "reply"}

\* the handlers a message id was delivered to
Deliveries(mid) == {r \in Reqs : req[r].pc # "idle" /\ req[r].msg.mid = mid}

\* the handler has passed the store of the user message
PastStore(r) == req[r].pc \in {"llm", "storebot", "send", "done", "failed"}

UserRows(mid) ==
    {i \in 1..Len(store) : store[i].mid = mid /\ store[i].mtype = "user"}

\* C29: in the legacy and combined variants a message id delivered several
\* times has one user row, while every delivery makes its own provider
\* call, stores its own assistant row and, where its send completes, sends
\* its own reply: k completed deliveries leave k assistant rows and k
\* replies.
C29_OneUserRowManyReplies ==
    variant \in {"legacy", "combined"} =>
       \A m \in Messages :
          LET D == Deliveries(m.mid)
          IN  /\ Cardinality(UserRows(m.mid))
                    = IF \E r \in D : PastStore(r) THEN 1 ELSE 0
              /\ \A r \in D :
                    /\ PastPersist(r)
                       => req[r].provCalls = 1 /\ Cardinality(AssistantRowsBy(r)) = 1
                    /\ req[r].pc = "done" => Cardinality(RepliesSentBy(r)) = 1
              /\ Cardinality(UNION {AssistantRowsBy(r) : r \in D})
                    = Cardinality({r \in D : PastPersist(r)})
              /\ Cardinality(UNION {RepliesSentBy(r) : r \in D})
                    = Cardinality({r \in D : req[r].pc = "done"})

C29_Witness ==
    /\ variant \in {"legacy", "combined"}
    /\ \A r \in Reqs : req[r].pc = "done" /\ req[r].msg.mid = 1
    /\ Cardinality(UserRows(1)) = 1
    /\ Cardinality(UNION {AssistantRowsBy(r) : r \in Reqs}) = MaxReq
    /\ Cardinality(UNION {RepliesSentBy(r) : r \in Reqs}) = MaxReq

\* the texts the handlers put in the place of a reply when the provider
\* call fails
CannedTexts == {TimeoutText, ErrorText, ProviderErrorText}

CannedRow(row) == IsAssistantRow(row) /\ row.content \in CannedTexts

\* the provider call of the handler has failed and the handler has passed
\* the store of the text standing for the reply
FailedAndStored(r) ==
    /\ req[r].llmOut \in {"timeout", "error"}
    /\ req[r].pc \notin {"storebot", "a_reply", "f_reply"}

\* the row is one the history query of handler q selects
Selected(q, row) ==
    /\ row.chan = req[q].msg.chan
    /\ IF variant \in {"legacy", "combined"}
       THEN row.user = req[q].msg.user
       ELSE variant = "toolbot" \/ row.user = req[q].msg.user \/ row.bot = BotName

\* the rows the query selects that were stored after row i
SelectedAfter(q, i) == {j \in (i + 1)..Len(store) : Selected(q, store[j])}

QueryLimit ==
    CASE variant \in {"legacy", "combined"} -> HistoryLimit
      [] variant = "toolbot" -> McpHistoryLimit
      [] OTHER -> MaxContextMessages

\* the step is the history read of handler q
ReadsHistory(q) ==
    \/ req[q].pc = "hist" /\ req'[q].pc = "store"
    \/ req[q].pc = "b_hist" /\ req'[q].pc = "a_store"
    \/ variant = "botforge" /\ req[q].pc = "a_llm" /\ req'[q].pc = "a_reply"

\* the turn a row makes in the context of the variant
Turn(row) ==
    Msg("assistant",
        IF variant = "toolbot" THEN row.name \o ": " \o row.content
        ELSE row.content)

CannedIsStored ==
    \A r \in Reqs : FailedAndStored(r) =>
        req[r].reply \in CannedTexts /\ RowBy(r, req[r].reply)

CannedIsReplayed ==
    \A q \in Reqs : req[q].ctx # << >> =>
        \A k \in 1..Len(req[q].hist) :
            CannedRow(req[q].hist[k]) =>
                \E j \in 1..Len(req[q].ctx) : req[q].ctx[j] = Turn(req[q].hist[k])

CannedIsRead ==
    \A q \in Reqs : ReadsHistory(q) =>
        \A i \in 1..Len(store) :
            /\ CannedRow(store[i])
            /\ Selected(q, store[i])
            /\ Cardinality(SelectedAfter(q, i)) < QueryLimit
            => \E k \in 1..Len(req'[q].hist) : req'[q].hist[k] = store[i]

\* C30: the text put in the place of a reply when the provider call fails
\* is stored as an assistant row like a real reply; a later history read
\* for the same user and channel returns the row while it is within the
\* query's limit, and the context built from that history replays it as an
\* assistant turn.
C30_CannedTextStoredAndReplayed ==
    /\ [](CannedIsStored /\ CannedIsReplayed)
    /\ [][CannedIsRead]_vars

C30_Witness ==
    \E r, q \in Reqs :
        /\ r # q
        /\ FailedAndStored(r)
        /\ RowBy(r, req[r].reply)
        /\ req[q].msg.user = req[r].msg.user
        /\ req[q].msg.chan = req[r].msg.chan
        /\ \E k \in 1..Len(req[q].hist) :
              req[q].hist[k].by = r /\ CannedRow(req[q].hist[k])
        /\ \E j \in 1..Len(req[q].ctx) :
              req[q].ctx[j] = Msg("assistant", req[r].reply)
        /\ req[q].llmOut = "ok"

\* C14: for a message with no prior history whose first round asks for one
\* tool call, the finished exchange has executed the tool, made a second
\* provider round, sent one message and persisted exactly one assistant row.
C14_OneToolRoundTrip ==
    \A r \in Reqs :
        /\ req[r].pc = "done"
        /\ Len(req[r].calls) = 1
        /\ req[r].calls[1].tool \in DiscordTools /\ req[r].calls[1].argsOk
        /\ req[r].fstatus = "ok" /\ req[r].llmOut = "ok"
        => /\ Len(req[r].results) = 1
           /\ req[r].rounds = 2
           /\ Cardinality(RepliesSentBy(r)) = 1
           /\ Cardinality(AssistantRowsBy(r)) = 1

----------------------------------------------------------------------------
(* Claims about failures *)

\* C15: a failure while a message is handled is caught inside the handler of
\* that message, which ends with an error result or a notice: no exception
\* leaves a handler (pc "aborted").
C15_FailuresCaughtInHandler ==
    \A r \in Reqs : req[r].pc # "aborted"


\* C16: the message log is append-only: a step leaves every stored row as
\* it is and in its place, and at most adds rows after them.
C16_AppendOnly ==
    [][/\ Len(store') >= Len(store)
       /\ \A i \in 1..Len(store) : store'[i] = store[i]]_vars

C16_Witness ==
    /\ Len(store) >= 4
    /\ \E i, j \in 1..Len(store) :
          i < j /\ store[i].by # store[j].by /\ store[i].mtype = "assistant"


----------------------------------------------------------------------------
(* Claims about the bot's own messages *)

\* C17: a message authored by the bot itself is never handed to the
\* pipeline, whatever it mentions or contains.
C17_OwnMessagesIgnored ==
    trig.phase = "decided" /\ trig.event.author = "self" => ~trig.responded

C17_Witness ==
    /\ trig.phase = "decided"
    /\ trig.event.author = "self"
    /\ "self" \in trig.event.mentions
    /\ \E t \in TriggerWords : Contains(LowerSeq(trig.event.content), LowerSeq(t))
    /\ trig.event.replyTo = "self"
    /\ ~trig.responded


----------------------------------------------------------------------------
(* The filesystem MCP server: paths are sequences of names, a name is a    *)
(* sequence of characters                                                  *)

UpName == <<".", ".">>

\* the directories the server is started with: /w
AllowedDirs == { << <<"w">> >> }

\* the directories of the machine; /w/l is a symbolic link to /e
Dirs == { << >>, << <<"w">> >>, << <<"w">>, <<"s">> >>, << <<"w", "2">> >>, << <<"e">> >> }

LinkAt == << <<"w">>, <<"l">> >>
LinkTo == << <<"e">> >>

\* the paths a client asks for
AskedPaths ==
    { << <<"w">>, <<"f">> >>,
      << <<"w">>, <<"s">>, <<"f">> >>,
      << <<"w">>, <<"n">> >>,
      << <<"w">> >>,
      << <<"w", "2">>, <<"f">> >>,
      << <<"w", "2">> >>,
      << <<"e">>, <<"f">> >>,
      << <<"w">>, UpName, <<"e">>, <<"f">> >>,
      << <<"w">>, <<"l">>, <<"f">> >> }

\* the files that exist when the server starts
FilesAtStart ==
    { << <<"w">>, <<"f">> >>, << <<"w", "2">>, <<"f">> >>, << <<"e">>, <<"f">> >> }

RECURSIVE ResolveFrom(_, _, _)
\* Path.resolve(): ".." leaves a directory, a symbolic link is followed
ResolveFrom(path, i, at) ==
    IF i > Len(path) THEN at
    ELSE IF path[i] = UpName
         THEN ResolveFrom(path, i + 1,
                          IF at = << >> THEN at ELSE SubSeq(at, 1, Len(at) - 1))
         ELSE LET to == Append(at, path[i])
              IN  ResolveFrom(path, i + 1, IF to = LinkAt THEN LinkTo ELSE to)

Resolve(path) == ResolveFrom(path, 1, << >>)

RECURSIVE PathStr(_)
\* str(path) of an absolute path
PathStr(path) ==
    IF path = << >> THEN << >>
    ELSE <<"/">> \o Head(path) \o PathStr(Tail(path))

\* str.startswith
StartsWith(s, prefix) ==
    Len(prefix) <= Len(s) /\ SubSeq(s, 1, Len(prefix)) = prefix

\* _is_safe_path
IsSafePath(path) ==
    \E d \in AllowedDirs : StartsWith(PathStr(Resolve(path)), PathStr(d))

FileTools == {"read_file", "write_file", "list_files", "get_file_info"}

\* the answer of a tool and the location it read or wrote, if any
FileToolOutcome(tool, path, overwrite, files) ==
    LET abs == Resolve(path)
        isFile == abs \in files
        isDir == abs \in Dirs
    IN  IF ~IsSafePath(path) THEN [result |-> "denied", touched |-> { }, written |-> { }]
        ELSE CASE tool = "read_file" ->
                    IF ~(isFile \/ isDir)
                    THEN [result |-> "not_found", touched |-> { }, written |-> { }]
                    ELSE IF ~isFile
                    THEN [result |-> "not_a_file", touched |-> { }, written |-> { }]
                    ELSE [result |-> "success", touched |-> {abs}, written |-> { }]
               [] tool = "write_file" ->
                    IF (isFile \/ isDir) /\ ~overwrite
                    THEN [result |-> "exists", touched |-> { }, written |-> { }]
                    ELSE IF isDir
                    THEN [result |-> "error", touched |-> { }, written |-> { }]
                    ELSE [result |-> "success", touched |-> {abs}, written |-> {abs}]
               [] tool = "list_files" ->
                    IF ~(isFile \/ isDir)
                    THEN [result |-> "not_found", touched |-> { }, written |-> { }]
                    ELSE IF ~isDir
                    THEN [result |-> "not_a_directory", touched |-> { }, written |-> { }]
                    ELSE [result |-> "success", touched |-> {abs}, written |-> { }]
               [] OTHER ->
                    IF ~(isFile \/ isDir)
                    THEN [result |-> "not_found", touched |-> { }, written |-> { }]
                    ELSE [result |-> "success", touched |-> {abs}, written |-> { }]

\* one tools/call request served
FileToolCall(tool, path, overwrite) ==
    /\ scope = "files"
    /\ LET o == FileToolOutcome(tool, path, overwrite, mcp.files)
       IN  mcp' = [files |-> mcp.files \cup o.written,
                   touched |-> mcp.touched \cup o.touched,
                   tool |-> tool, path |-> path, result |-> o.result]
    /\ UNCHANGED <<boot, scope, variant, store, req, sent, loop, trig, disp>>

InitFiles ==
    /\ scope = "files"
    /\ boot = [phase |-> "off"]
    /\ variant = "filesystem"
    /\ store = << >>
    /\ req = [r \in Reqs |-> IdleReq]
    /\ sent = << >>
    /\ loop = 0
    /\ trig = [phase |-> "off"]
    /\ disp = [phase |-> "off"]
    /\ mcp = [files |-> FilesAtStart, touched |-> { }, tool |-> "none",
              path |-> << >>, result |-> "none"]

NextFiles ==
    \E tool \in FileTools, path \in AskedPaths, overwrite \in BOOLEAN :
        FileToolCall(tool, path, overwrite)

SpecFiles == InitFiles /\ [][NextFiles]_vars

\* the resolved location lies inside an allowed directory
InsideAllowed(abs) ==
    \E d \in AllowedDirs : Len(d) <= Len(abs) /\ SubSeq(abs, 1, Len(d)) = d

\* C18: a tool answers anything but access denied only for a path whose
\* resolved location lies inside an allowed directory, and answers access
\* denied only for a path outside; no location outside is read or written.
C18_OnlyAllowedDirectories ==
    /\ mcp.tool # "none"
       => (mcp.result # "denied" <=> InsideAllowed(Resolve(mcp.path)))
    /\ \A abs \in mcp.touched : InsideAllowed(abs)


----------------------------------------------------------------------------
(* write_file of the filesystem MCP server (FileOperations.write_file has  *)
(* the same body): the content of every location                           *)

MaxFileSize == 26214400

AllowedExtensions == { <<".", "g", "o">>, <<".", "e", "n", "v">> }

\* the paths write_file is asked for
WritePaths ==
    { << <<"w">>, <<"a", ".", "g", "o">> >>,
      << <<"w">>, <<"b", ".", "G", "O">> >>,
      << <<"w">>, <<"c", ".", "x">> >>,
      << <<"w">>, <<".", "e", "n", "v">> >>,
      << <<"w">>, <<"s">> >>,
      << <<"w">>, <<"l">>, <<"d", ".", "g", "o">> >>,
      << <<"w">>, <<"s">>, UpName, <<"a", ".", "g", "o">> >> }

WriteLocations == {Resolve(path) : path \in WritePaths}

FileContents == {"old", "new", "vast"}

\* len(content.encode(encoding))
ContentSize(content) == IF content = "vast" THEN MaxFileSize + 1 ELSE Len(content)

\* the files when the server starts: /w/a.go and /w/c.x hold "old"
DiskAtStart ==
    [abs \in WriteLocations |->
        IF abs \in { << <<"w">>, <<"a", ".", "g", "o">> >>, << <<"w">>, <<"c", ".", "x">> >> }
        THEN "old" ELSE "absent"]

\* the position of the last "." in a name, 0 without one
LastDot(name) ==
    IF \E i \in 1..Len(name) : name[i] = "."
    THEN CHOOSE i \in 1..Len(name) :
            name[i] = "." /\ \A j \in (i + 1)..Len(name) : name[j] # "."
    ELSE 0

\* Path.suffix: from the last ".", unless it leads or ends the name
Suffix(path) ==
    LET name == path[Len(path)]
        i == LastDot(name)
    IN  IF 1 < i /\ i < Len(name) THEN SubSeq(name, i, Len(name)) ELSE << >>

\* Path.exists()
Exists(path, disk) == Resolve(path) \in Dirs \/ disk[Resolve(path)] # "absent"

\* write_file with the overwrite policy left out
WriteFileReplacing(path, content, overwrite, disk) ==
    IF ~IsSafePath(path) THEN [result |-> "denied", disk |-> disk]
    ELSE IF LowerSeq(Suffix(path)) \notin AllowedExtensions
    THEN [result |-> "type_not_allowed", disk |-> disk]
    ELSE IF ContentSize(content) > MaxFileSize
    THEN [result |-> "too_large", disk |-> disk]
    ELSE IF Resolve(path) \in Dirs
    THEN [result |-> "error", disk |-> disk]
    ELSE [result |-> "success", disk |-> [disk EXCEPT ![Resolve(path)] = content]]

\* write_file: the answer and the files afterwards
WriteFile(path, content, overwrite, disk) ==
    IF ~IsSafePath(path) THEN [result |-> "denied", disk |-> disk]
    ELSE IF Exists(path, disk) /\ ~overwrite
    THEN [result |-> "exists", disk |-> disk]
    ELSE IF LowerSeq(Suffix(path)) \notin AllowedExtensions
    THEN [result |-> "type_not_allowed", disk |-> disk]
    ELSE IF ContentSize(content) > MaxFileSize
    THEN [result |-> "too_large", disk |-> disk]
    ELSE IF Resolve(path) \in Dirs
    THEN [result |-> "error", disk |-> disk]
    ELSE [result |-> "success", disk |-> [disk EXCEPT ![Resolve(path)] = content]]

\* one write_file call served
WriteCall(path, content, overwrite) ==
    /\ scope = "write"
    /\ LET o == WriteFile(path, content, overwrite, mcp.disk)
       IN  mcp' = [disk |-> o.disk, op |-> "write_file", path |-> path,
                   content |-> content, overwrite |-> overwrite,
                   existed |-> Exists(path, mcp.disk),
                   before |-> mcp.disk[Resolve(path)],
                   result |-> o.result]
    /\ UNCHANGED <<boot, scope, variant, store, req, sent, loop, trig, disp>>

InitWrite ==
    /\ scope = "write"
    /\ boot = [phase |-> "off"]
    /\ variant = "filesystem"
    /\ store = << >>
    /\ req = [r \in Reqs |-> IdleReq]
    /\ sent = << >>
    /\ loop = 0
    /\ trig = [phase |-> "off"]
    /\ disp = [phase |-> "off"]
    /\ mcp = [disk |-> DiskAtStart, op |-> "none", path |-> << >>, content |-> "old",
              overwrite |-> FALSE, existed |-> FALSE, before |-> "absent",
              result |-> "none"]

NextWrite ==
    \E path \in WritePaths, content \in FileContents, overwrite \in BOOLEAN :
        WriteCall(path, content, overwrite)

SpecWrite == InitWrite /\ [][NextWrite]_vars

\* the call passes the checks write_file makes before it opens the file
WriteAccepted ==
    /\ IsSafePath(mcp.path)
    /\ LowerSeq(Suffix(mcp.path)) \in AllowedExtensions
    /\ ContentSize(mcp.content) <= MaxFileSize
    /\ Resolve(mcp.path) \notin Dirs

Refused == mcp.result # "success" /\ mcp.disk[Resolve(mcp.path)] = mcp.before

----------------------------------------------------------------------------
(* The MCP client: one MCPClient, its initialize() and shutdown() step by  *)
(* step, and the calls other coroutines make meanwhile                     *)

\* the servers of the configuration and the tools each one lists
ServerNames == {"discord", "filesystem"}

ServerTools(name) ==
    IF name = "discord" THEN {"send_message", "list_channels"} ELSE {"read_file"}

ToolNames == {"send_message", "read_file", "make_coffee"}

ServerOf(tool) ==
    IF \E name \in ServerNames : tool \in ServerTools(name)
    THEN CHOOSE name \in ServerNames : tool \in ServerTools(name)
    ELSE "none"

NoCall ==
    [op |-> "none", init |-> FALSE, result |-> "none", contacted |-> FALSE,
     tool |-> "none", target |-> "none", known |-> FALSE, up |-> FALSE,
     shut |-> FALSE, reinit |-> FALSE]

NoPending == [tool |-> "none", shut |-> FALSE]

\* MCPClient.__init__
NewClient ==
    [pc |-> "new", servers |-> { }, started |-> { }, tried |-> { },
     connected |-> { }, closed |-> { }, all_tools |-> { }, is_initialized |-> FALSE,
     stopping |-> FALSE, shut |-> FALSE, pending |-> NoPending, last |-> NoCall]

\* MCPServer.connect with every connected server's tools put into all_tools
\* at once
AfterConnectCollecting(c, name, ok) ==
    [c EXCEPT !.tried = @ \cup {name},
              !.connected = IF ok THEN @ \cup {name} ELSE @,
              !.all_tools = IF ok THEN @ \cup ServerTools(name) ELSE @]

\* MCPServer.connect: the server object is connected and holds its tools
AfterConnect(c, name, ok) ==
    [c EXCEPT !.tried = @ \cup {name},
              !.connected = IF ok THEN @ \cup {name} ELSE @]

\* MCPClient.call_tool with the exception of a closed socket let through
CallToolOutcomeUncaught(c, tool) ==
    IF ~c.is_initialized
    THEN [result |-> "error_not_initialized", contacted |-> FALSE, target |-> "none"]
    ELSE IF tool \notin c.all_tools
    THEN [result |-> "error_not_found", contacted |-> FALSE, target |-> "none"]
    ELSE IF ServerOf(tool) \notin c.servers
    THEN [result |-> "error_no_server", contacted |-> FALSE, target |-> "none"]
    ELSE IF ServerOf(tool) \notin c.connected
    THEN [result |-> "error_not_connected", contacted |-> FALSE, target |-> "none"]
    ELSE IF ServerOf(tool) \in c.closed
    THEN [result |-> "raised", contacted |-> FALSE, target |-> "none"]
    ELSE [result |-> "result", contacted |-> TRUE, target |-> ServerOf(tool)]

\* MCPClient.call_tool and, inside it, MCPServer.call_tool: the result,
\* whether the request reached a server, and which one; a send on a socket
\* the server has closed raises and the except clause returns its text
CallToolOutcome(c, tool) ==
    IF ~c.is_initialized
    THEN [result |-> "error_not_initialized", contacted |-> FALSE, target |-> "none"]
    ELSE IF tool \notin c.all_tools
    THEN [result |-> "error_not_found", contacted |-> FALSE, target |-> "none"]
    ELSE IF ServerOf(tool) \notin c.servers
    THEN [result |-> "error_no_server", contacted |-> FALSE, target |-> "none"]
    ELSE IF ServerOf(tool) \notin c.connected
    THEN [result |-> "error_not_connected", contacted |-> FALSE, target |-> "none"]
    ELSE IF ServerOf(tool) \in c.closed
    THEN [result |-> "error_exception", contacted |-> FALSE, target |-> "none"]
    ELSE [result |-> "result", contacted |-> TRUE, target |-> ServerOf(tool)]

\* what a call saw and what it returned
CallRecord(op, c, tool, shut, reinit) ==
    LET o == CallToolOutcome(c, tool)
    IN  [op |-> op, init |-> c.is_initialized, result |-> o.result,
         contacted |-> o.contacted, tool |-> tool, target |-> o.target,
         known |-> tool \in c.all_tools,
         up |-> /\ ServerOf(tool) \in c.servers
                /\ ServerOf(tool) \in c.connected
                /\ ServerOf(tool) \notin c.closed,
         shut |-> shut, reinit |-> reinit]

\* initialize() returns: a call_mcp_tool that awaited it goes on to call_tool
Complete(c) ==
    IF c.pending.tool = "none" THEN c
    ELSE [c EXCEPT !.pending = NoPending,
                   !.last = CallRecord("call_mcp_tool", c, c.pending.tool,
                                       c.pending.shut, TRUE)]

\* initialize() begins: new server objects for the configured names
Begun(c, pending) ==
    [c EXCEPT !.pc = "starting", !.servers = ServerNames, !.started = { },
              !.tried = { }, !.connected = { }, !.closed = { },
              !.shut = FALSE, !.pending = pending]

ClientStep(c) ==
    /\ scope = "client"
    /\ mcp' = c
    /\ UNCHANGED <<boot, scope, variant, store, req, sent, loop, trig, disp>>

\* initialize(): the configuration is read; without it initialize returns
\* False, with it a server object is made for every entry
InitializeLoad ==
    /\ mcp.pc = "new"
    /\ \/ ClientStep([mcp EXCEPT !.shut = FALSE])
       \/ ClientStep(Begun(mcp, NoPending))

\* await gather(start tasks): some servers started; without any, nothing is
\* connected and initialize completes; self.servers[server_name] of a
\* started server that is no longer in the registry raises and initialize
\* returns False
InitializeStart ==
    /\ mcp.pc = "starting"
    /\ \E up \in SUBSET ServerNames :
          IF up = { }
          THEN ClientStep(Complete([mcp EXCEPT !.pc = "ready", !.is_initialized = TRUE]))
          ELSE IF up \subseteq mcp.servers
          THEN ClientStep([mcp EXCEPT !.pc = "connecting", !.started = up])
          ELSE ClientStep(Complete([mcp EXCEPT !.pc = "new"]))

\* await gather(connect tasks): one server's connect ends
ServerConnect(name) ==
    /\ mcp.pc = "connecting"
    /\ name \in mcp.started \ mcp.tried
    /\ \E ok \in BOOLEAN : ClientStep(AfterConnect(mcp, name, ok))

\* the tools of the connected servers of the registry are collected and the
\* flag is set
InitializeCollect ==
    /\ mcp.pc = "connecting"
    /\ mcp.tried = mcp.started
    /\ ClientStep(Complete([mcp EXCEPT
          !.pc = "ready",
          !.all_tools = @ \cup UNION {ServerTools(n) : n \in mcp.connected \cap mcp.servers},
          !.is_initialized = TRUE]))

\* the server end of a connection goes away; is_connected is left as it is
ServerDrops(name) ==
    /\ name \in mcp.connected \ mcp.closed
    /\ ClientStep([mcp EXCEPT !.closed = @ \cup {name}])

\* get_tools_schema(), from any coroutine
GetToolsSchema ==
    ClientStep([mcp EXCEPT !.last = [NoCall EXCEPT !.op = "get_tools_schema",
                                                   !.init = mcp.is_initialized,
                                                   !.result = mcp.all_tools]])

\* call_tool(tool, ...), from any coroutine
CallTool(tool) ==
    ClientStep([mcp EXCEPT !.last = CallRecord("call_tool", mcp, tool, mcp.shut, FALSE)])

\* call_mcp_tool(tool, ...): get_mcp_client runs initialize() first when the
\* client is not initialized
CallMcpTool(tool) ==
    IF mcp.is_initialized
    THEN ClientStep([mcp EXCEPT
            !.last = CallRecord("call_mcp_tool", mcp, tool, mcp.shut, FALSE)])
    ELSE /\ mcp.pc = "new"
         /\ \/ ClientStep(Complete([mcp EXCEPT
                    !.shut = FALSE,
                    !.pending = [tool |-> tool, shut |-> mcp.shut]]))
            \/ ClientStep(Begun(mcp, [tool |-> tool, shut |-> mcp.shut]))

\* shutdown(): gather(stop tasks); every stop() begins by clearing
\* is_connected and closing the socket
ShutdownStop ==
    /\ ~mcp.stopping
    /\ mcp.servers # { }
    /\ ClientStep([mcp EXCEPT !.stopping = TRUE,
                              !.connected = @ \ mcp.servers,
                              !.closed = @ \cup mcp.servers])

\* shutdown(): the registries are cleared and the flag reset (at once when
\* there is no server to stop)
ShutdownClear ==
    /\ mcp.stopping \/ mcp.servers = { }
    /\ ClientStep([mcp EXCEPT
          !.pc = IF @ \in {"starting", "connecting"} THEN @ ELSE "new",
          !.servers = { }, !.all_tools = { }, !.is_initialized = FALSE,
          !.stopping = FALSE, !.shut = TRUE])

InitClient ==
    /\ scope = "client"
    /\ boot = [phase |-> "off"]
    /\ variant = "mcpclient"
    /\ store = << >>
    /\ req = [r \in Reqs |-> IdleReq]
    /\ sent = << >>
    /\ loop = 0
    /\ trig = [phase |-> "off"]
    /\ disp = [phase |-> "off"]
    /\ mcp = NewClient

NextClient ==
    \/ InitializeLoad
    \/ InitializeStart
    \/ \E name \in ServerNames : ServerConnect(name)
    \/ InitializeCollect
    \/ \E name \in ServerNames : ServerDrops(name)
    \/ GetToolsSchema
    \/ \E tool \in ToolNames : CallTool(tool)
    \/ \E tool \in ToolNames : CallMcpTool(tool)
    \/ ShutdownStop
    \/ ShutdownClear

SpecClient == InitClient /\ [][NextClient]_vars

\* C19: a client on which no initialize() has begun has no servers and no
\* tools and is not initialized; while the client is not initialized it
\* holds no tools, get_tools_schema has returned the empty list, and
\* call_tool has returned an error without contacting a server.
C19_NothingBeforeInitialize ==
    /\ mcp.pc = "new"
       => mcp.servers = { } /\ mcp.all_tools = { } /\ ~mcp.is_initialized
    /\ ~mcp.is_initialized => mcp.all_tools = { }
    /\ mcp.last.op = "get_tools_schema" /\ ~mcp.last.init => mcp.last.result = { }
    /\ mcp.last.op = "call_tool" /\ ~mcp.last.init
       => mcp.last.result = "error_not_initialized" /\ ~mcp.last.contacted

C19_Witness ==
    /\ mcp.pc = "connecting"
    /\ mcp.connected # { }
    /\ mcp.last.op = "call_tool" /\ ~mcp.last.init
    /\ ~mcp.last.contacted

IsCall == mcp.last.op \in {"call_tool", "call_mcp_tool"}

ErrorResults ==
    {"error_not_initialized", "error_not_found", "error_no_server",
     "error_not_connected", "error_exception"}

\* C21: call_tool hands a call to a server only when that server is the one
\* that registered the tool and is connected; for a tool nobody registered,
\* a server missing from the registry or a server no longer connected it
\* returns an error value; it never raises.
C21_ForwardOnlyToConnectedOwner ==
    IsCall =>
       /\ mcp.last.result # "raised"
       /\ mcp.last.contacted
          => /\ mcp.last.known
             /\ mcp.last.target = ServerOf(mcp.last.tool)
             /\ mcp.last.tool \in ServerTools(mcp.last.target)
             /\ mcp.last.up
       /\ ~mcp.last.known \/ ~mcp.last.up => mcp.last.result \in ErrorResults

C21_Witness ==
    /\ mcp.last.op = "call_tool"
    /\ mcp.last.init /\ mcp.last.known /\ ~mcp.last.up
    /\ mcp.last.result = "error_exception"

\* C22: once shutdown() has returned, and until an initialize() is begun,
\* no server is marked connected, the server and tool registries are empty
\* and is_initialized is false; a call_mcp_tool made then runs initialize()
\* before its call_tool and reaches only a server connected by it.
C22_ShutdownLeavesNothing ==
    /\ mcp.shut
       => /\ mcp.connected = { }
          /\ mcp.servers = { } /\ mcp.all_tools = { }
          /\ ~mcp.is_initialized
    /\ mcp.last.op = "call_mcp_tool" /\ mcp.last.shut => mcp.last.reinit

----------------------------------------------------------------------------
(* One client connection of an MCP server (mcp_servers/discord.py and      *)
(* mcp_servers/filesystem.py share the handlers)                           *)

MaxMsgs == 2

ParseError == -32700
MethodNotFound == -32601
InternalError == -32603
NoError == 0

RequestIds == {"a", "null"}

Methods == {"initialize", "tools/list", "tools/call", "bogus/method"}

\* what reaches the socket: text that is not JSON, JSON that is not an
\* object, or a request object
Garbage ==
    [kind |-> "garbage", id |-> "null", method |-> "none", params |-> "none",
     tool |-> "none", run |-> "none"]

JsonValue ==
    [kind |-> "value", id |-> "null", method |-> "none", params |-> "none",
     tool |-> "none", run |-> "none"]

Requests ==
    {[kind |-> "object", id |-> i, method |-> m, params |-> "none",
      tool |-> "none", run |-> "none"] :
        i \in RequestIds, m \in Methods \ {"tools/call"}}
    \cup {[kind |-> "object", id |-> i, method |-> "tools/call", params |-> "other",
           tool |-> "none", run |-> "none"] : i \in RequestIds}
    \cup {[kind |-> "object", id |-> i, method |-> "tools/call", params |-> "dict",
           tool |-> t, run |-> o] :
             i \in RequestIds, t \in ToolNames,
             o \in {"returns", "error_inside", "raises"}}

Wire == {Garbage, JsonValue} \cup Requests

Reply(id, code) == [raised |-> FALSE, id |-> id, code |-> code]

Raised == [raised |-> TRUE, id |-> "null", code |-> NoError]

\* handle_tool_call: params that is no dict raises in the try block and
\* again in the except clause's log line
HandleToolCall(server, m) ==
    IF m.params # "dict" THEN Raised
    ELSE IF m.tool \notin ServerTools(server) THEN Reply(m.id, MethodNotFound)
    ELSE IF m.run = "raises" THEN Reply(m.id, InternalError)
    ELSE Reply(m.id, NoError)

\* handle_mcp_request: request.get raises on a value that is no object, in
\* the try block and again in the except clause
HandleMcpRequest(server, m) ==
    IF m.kind # "object" THEN Raised
    ELSE LET r == IF m.method \in {"initialize", "tools/list"} THEN Reply(m.id, NoError)
                  ELSE IF m.method = "tools/call" THEN HandleToolCall(server, m)
                  ELSE Reply(m.id, MethodNotFound)
         IN  IF r.raised THEN Reply(m.id, InternalError) ELSE r

\* one turn of handle_client's loop
HandleClient(server, m) ==
    IF m.kind = "garbage" THEN Reply("null", ParseError)
    ELSE HandleMcpRequest(server, m)

ServerStep(c) ==
    /\ scope = "server"
    /\ mcp' = c
    /\ UNCHANGED <<boot, scope, variant, store, req, sent, loop, trig, disp>>

\* a message arrives and is handled; an exception other than a parse error
\* leaves the loop and ends the connection
Serve(m) ==
    /\ mcp.ended = "no"
    /\ Len(mcp.received) < MaxMsgs
    /\ LET r == HandleClient(variant, m)
       IN  IF r.raised
           THEN ServerStep([mcp EXCEPT !.received = Append(@, m), !.ended = "error"])
           ELSE ServerStep([mcp EXCEPT !.received = Append(@, m),
                                       !.replies = Append(@, [id |-> r.id, code |-> r.code])])

\* the client closes the connection
ClientCloses ==
    /\ mcp.ended = "no"
    /\ ServerStep([mcp EXCEPT !.ended = "client"])

InitServer ==
    /\ scope = "server"
    /\ boot = [phase |-> "off"]
    /\ variant \in ServerNames
    /\ store = << >>
    /\ req = [r \in Reqs |-> IdleReq]
    /\ sent = << >>
    /\ loop = 0
    /\ trig = [phase |-> "off"]
    /\ disp = [phase |-> "off"]
    /\ mcp = [received |-> << >>, replies |-> << >>, ended |-> "no"]

NextServer ==
    \/ \E m \in Wire : Serve(m)
    \/ ClientCloses

SpecServer == InitServer /\ [][NextServer]_vars

\* C20: on one connection every received message has exactly one response,
\* in receipt order and with the request's id (null for text that is not
\* JSON); an unknown method or tool is answered -32601, text that is not
\* JSON -32700, a tool that raises -32603; no message makes the server end
\* the connection.
C20_OneResponsePerMessage ==
    /\ mcp.ended # "error"
    /\ Len(mcp.replies) = Len(mcp.received)
    /\ \A i \in 1..Len(mcp.replies) :
          LET m == mcp.received[i]
              r == mcp.replies[i]
          IN  /\ r.id = m.id
              /\ m.kind = "garbage" => r.code = ParseError
              /\ m.kind = "object" /\ m.method \notin {"initialize", "tools/list", "tools/call"}
                 => r.code = MethodNotFound
              /\ m.method = "tools/call" /\ m.params = "dict"
                 /\ m.tool \notin ServerTools(variant)
                 => r.code = MethodNotFound
              /\ m.method = "tools/call" /\ m.params = "dict"
                 /\ m.tool \in ServerTools(variant) /\ m.run = "raises"
                 => r.code = InternalError


----------------------------------------------------------------------------
(* Startup of the combined service: main() of discord_combined_service.py  *)

DatabaseAttempts == 30

\* what an attempt to connect and SELECT 1 can end with; the bare except
\* takes every one of the failures
AttemptOutcomes == {"connected", "refused", "timeout", "interrupt"}

\* time.sleep(2) over, with the loop going on to start the service when it
\* has run out
AfterSleepStarting(b) ==
    IF b.attempts < DatabaseAttempts
    THEN [b EXCEPT !.phase = "waiting"]
    ELSE [b EXCEPT !.phase = "connected"]

\* time.sleep(2) over: the next turn of the loop, or its else clause
AfterSleep(b) ==
    IF b.attempts < DatabaseAttempts
    THEN [b EXCEPT !.phase = "waiting"]
    ELSE [b EXCEPT !.phase = "ended"]

BootStep(b) ==
    /\ scope = "startup"
    /\ boot' = b
    /\ UNCHANGED <<scope, variant, store, req, sent, loop, trig, disp, mcp>>

\* one turn of for i in range(30): get_db_connection and SELECT 1
TryDatabase(outcome) ==
    /\ boot.phase = "waiting"
    /\ boot.attempts < DatabaseAttempts
    /\ IF outcome = "connected"
       THEN BootStep([boot EXCEPT !.attempts = @ + 1, !.phase = "connected",
                                  !.connected = TRUE, !.last = outcome])
       ELSE BootStep([boot EXCEPT !.attempts = @ + 1, !.phase = "sleeping",
                                  !.last = outcome])

\* time.sleep(2) in the except clause; an interrupt there leaves main()
Sleep ==
    /\ boot.phase = "sleeping"
    /\ \/ BootStep(AfterSleep(boot))
       \/ BootStep([boot EXCEPT !.phase = "ended", !.last = "interrupt"])

\* flask_thread.start()
StartApi ==
    /\ boot.phase = "connected"
    /\ BootStep([boot EXCEPT !.phase = "api", !.api = TRUE])

\* run_discord_bot()
StartBot ==
    /\ boot.phase = "api"
    /\ BootStep([boot EXCEPT !.phase = "running", !.bot = TRUE])

\* KeyboardInterrupt while the bot runs
Interrupted ==
    /\ boot.phase = "running"
    /\ BootStep([boot EXCEPT !.phase = "ended"])

InitStartup ==
    /\ scope = "startup"
    /\ variant = "combined"
    /\ store = << >>
    /\ req = [r \in Reqs |-> IdleReq]
    /\ sent = << >>
    /\ loop = 0
    /\ trig = [phase |-> "off"]
    /\ disp = [phase |-> "off"]
    /\ mcp = [phase |-> "off"]
    /\ boot = [phase |-> "waiting", attempts |-> 0, connected |-> FALSE,
               api |-> FALSE, bot |-> FALSE, last |-> "none"]

NextStartup ==
    \/ \E outcome \in AttemptOutcomes : TryDatabase(outcome)
    \/ Sleep
    \/ StartApi
    \/ StartBot
    \/ Interrupted

SpecStartup == InitStartup /\ [][NextStartup]_vars

\* C24: the database is tried at most 30 times; the HTTP API and the
\* Discord bot are started only after an attempt has succeeded; when all
\* 30 have failed neither is started and startup ends.
C24_StartOnlyWithDatabase ==
    /\ boot.attempts <= DatabaseAttempts
    /\ boot.api \/ boot.bot => boot.connected
    /\ boot.phase \in {"connected", "api", "running"} => boot.connected
    /\ ~boot.connected /\ boot.attempts = DatabaseAttempts
       => boot.phase \in {"sleeping", "ended"} /\ ~boot.api /\ ~boot.bot

C24_Witness ==
    /\ boot.phase = "ended"
    /\ boot.attempts = DatabaseAttempts
    /\ ~boot.connected /\ ~boot.api /\ ~boot.bot


----------------------------------------------------------------------------
(* Concurrent MCPServer.call_tool on one websocket: coroutines of the bots *)
(* that share the global client                                            *)

MaxSends == 3

Callers == {1, 2}

\* got: 0 while nothing was returned, the id of the response returned, or
\* CallError for the error value of an exception
CallError == 0 - 1

IdleCaller == [pc |-> "idle", asked |-> 0, got |-> 0]

\* a caller's recv() returns the message at the head of the socket's queue
Take(c, caller, inbox) ==
    IF inbox # << >>
    THEN [c EXCEPT ![caller] = [@ EXCEPT !.pc = "idle", !.got = Head(inbox)]]
    ELSE c

CallsStep(c) ==
    /\ scope = "calls"
    /\ mcp' = c
    /\ UNCHANGED <<boot, scope, variant, store, req, sent, loop, trig, disp>>

\* call_tool: the tools/call message with a fresh id is sent
SendCall(caller) ==
    /\ mcp.callers[caller].pc = "idle"
    /\ mcp.sends < MaxSends
    /\ CallsStep([mcp EXCEPT
          !.sends = @ + 1,
          !.wire = Append(@, mcp.sends + 1),
          !.callers[caller] = [pc |-> "sent", asked |-> mcp.sends + 1, got |-> 0]])

\* the server handles the oldest request and sends its response
ServerAnswers ==
    /\ mcp.wire # << >>
    /\ CallsStep([mcp EXCEPT !.wire = Tail(@), !.inbox = Append(@, Head(mcp.wire))])

\* call_tool: await websocket.recv().  With another coroutine already
\* waiting in recv() the call raises and call_tool returns the error
BeginRecv(caller) ==
    /\ mcp.callers[caller].pc = "sent"
    /\ IF mcp.waiting # 0
       THEN CallsStep([mcp EXCEPT
               !.callers[caller] = [@ EXCEPT !.pc = "idle", !.got = CallError]])
       ELSE IF mcp.inbox # << >>
       THEN CallsStep([mcp EXCEPT !.callers = Take(@, caller, mcp.inbox),
                                  !.inbox = Tail(@)])
       ELSE CallsStep([mcp EXCEPT !.callers[caller] = [@ EXCEPT !.pc = "recv"],
                                  !.waiting = caller])

\* the next message arrives for the coroutine waiting in recv()
EndRecv(caller) ==
    /\ mcp.waiting = caller
    /\ mcp.inbox # << >>
    /\ CallsStep([mcp EXCEPT !.callers = Take(@, caller, mcp.inbox),
                             !.inbox = Tail(@), !.waiting = 0])

InitCalls ==
    /\ scope = "calls"
    /\ boot = [phase |-> "off"]
    /\ variant = "mcpclient"
    /\ store = << >>
    /\ req = [r \in Reqs |-> IdleReq]
    /\ sent = << >>
    /\ loop = 0
    /\ trig = [phase |-> "off"]
    /\ disp = [phase |-> "off"]
    /\ mcp = [callers |-> [c \in Callers |-> IdleCaller], sends |-> 0,
              wire |-> << >>, inbox |-> << >>, waiting |-> 0]

NextCalls ==
    \/ \E caller \in Callers : SendCall(caller)
    \/ ServerAnswers
    \/ \E caller \in Callers : BeginRecv(caller)
    \/ \E caller \in Callers : EndRecv(caller)

SpecCalls == InitCalls /\ [][NextCalls]_vars

\* C26: under every interleaving of call_tool invocations on one
\* connection, what an invocation returns is the server's response to the
\* request that invocation sent.
C26_OwnResponse ==
    \A caller \in Callers :
        mcp.callers[caller].got # 0
        => mcp.callers[caller].got = mcp.callers[caller].asked


====
